---- MODULE Spec2Model ----
(***************************************************************************)
(* Model of keep_active: KeepActiveConfig (config.py), ScreenSize.center   *)
(* (mouse.py) and KeepActiveController (controller.py).                    *)
(*                                                                         *)
(* Time values: min_wait_seconds / max_wait_seconds are whole seconds;     *)
(* mouse_move_duration / post_click_pause are floats, modelled in tenths   *)
(* of a second (5 stands for 0.5).  A recorded sleep call carries its      *)
(* argument in tenths of a second.                                         *)
(***************************************************************************)
EXTENDS Integers, Sequences, FiniteSets, TLC

VARIABLES
    args,            \* arguments handed to KeepActiveConfig(...)
    config,          \* the constructed KeepActiveConfig, or NotConstructed
    raised,          \* the ValueError raised by __post_init__, or NoError
    running,         \* KeepActiveController._running
    iteration,       \* KeepActiveController._iteration
    max_iterations,  \* argument of the run() in progress: <<>> is None, <<n>> is n
    wait_time,       \* local of _run_iteration
    current_pos,     \* local of _perform_activity
    target_pos,      \* local of _perform_activity
    screen,          \* local of _calculate_target_position
    pc,              \* position of the thread executing run()
    exit,            \* exit status run() ended the process with ("0", "1"), the
                     \* uncaught exception that left it, or "none"
    calls,           \* collaborator calls (mouse, sleep) since run() was invoked
    output,          \* lines handed to print_func since run() was invoked
    runNo,           \* history: number of run() invocations so far
    prevIteration,   \* history: value of _iteration when run() was invoked
    stopped,         \* history: stop() was invoked since run() was invoked
    stopDuring,      \* history: iterations of this run during which stop() was invoked
    stopAt,          \* history: <<pc, _iteration>> at the first stop() invoked
                     \* inside the loop of this run, or <<>>
    stopIdle,        \* history: stop() was invoked at least once while no
                     \* run() was in progress
    thrown,          \* history: what was raised in run() and where, or NoThrow
    pair             \* two runs executed side by side on equal inputs, or <<>>

vars == <<args, config, raised, running, iteration, max_iterations, wait_time,
          current_pos, target_pos, screen, pc, exit, calls, output, runNo,
          prevIteration, stopped, stopDuring, stopAt, stopIdle, thrown,
          pair>>

cfgVars == <<args, config, raised>>

----------------------------------------------------------------------------
(* Bounds *)

MaxIteration == 2        \* iterations one run() may start in the model
MaxRuns == 2             \* run() invocations in one behaviour
MaxWait == 2             \* largest wait bound (seconds) tried by the constructor
MaxDuration == 1         \* largest duration (tenths of a second) tried

----------------------------------------------------------------------------
(* config.py *)

NotConstructed == [verbose |-> FALSE, constructed |-> FALSE]

NoError == [field |-> "", kind |-> ""]

ValueError(field, kind) == [field |-> field, kind |-> kind]

TimeArgs == (0 - 1) .. MaxWait

DurationArgs == (0 - 1) .. MaxDuration

\* every argument tuple the constructor is tried on
AllArgs ==
    [min_wait_seconds : TimeArgs, max_wait_seconds : TimeArgs,
     mouse_move_duration : DurationArgs, post_click_pause : DurationArgs,
     enable_failsafe : BOOLEAN, use_screen_center : BOOLEAN,
     verbose : BOOLEAN]

\* __post_init__ rejecting equal bounds (>= written for >)
PostInitRejectsEqual(a) ==
    IF a.min_wait_seconds < 0
      THEN ValueError("min_wait_seconds", "cannot be negative")
    ELSE IF a.max_wait_seconds < 0
      THEN ValueError("max_wait_seconds", "cannot be negative")
    ELSE IF a.mouse_move_duration < 0
      THEN ValueError("mouse_move_duration", "cannot be negative")
    ELSE IF a.post_click_pause < 0
      THEN ValueError("post_click_pause", "cannot be negative")
    ELSE IF a.min_wait_seconds >= a.max_wait_seconds
      THEN ValueError("min_wait_seconds", "cannot be greater than")
    ELSE NoError

\* __post_init__ with the logical constraint checked before the durations
PostInitOrderFirst(a) ==
    IF a.min_wait_seconds < 0
      THEN ValueError("min_wait_seconds", "cannot be negative")
    ELSE IF a.max_wait_seconds < 0
      THEN ValueError("max_wait_seconds", "cannot be negative")
    ELSE IF a.min_wait_seconds > a.max_wait_seconds
      THEN ValueError("min_wait_seconds", "cannot be greater than")
    ELSE IF a.mouse_move_duration < 0
      THEN ValueError("mouse_move_duration", "cannot be negative")
    ELSE IF a.post_click_pause < 0
      THEN ValueError("post_click_pause", "cannot be negative")
    ELSE NoError

\* __post_init__: the first failing check decides the error
PostInit(a) ==
    IF a.min_wait_seconds < 0
      THEN ValueError("min_wait_seconds", "cannot be negative")
    ELSE IF a.max_wait_seconds < 0
      THEN ValueError("max_wait_seconds", "cannot be negative")
    ELSE IF a.mouse_move_duration < 0
      THEN ValueError("mouse_move_duration", "cannot be negative")
    ELSE IF a.post_click_pause < 0
      THEN ValueError("post_click_pause", "cannot be negative")
    ELSE IF a.min_wait_seconds > a.max_wait_seconds
      THEN ValueError("min_wait_seconds", "cannot be greater than")
    ELSE NoError

\* the frozen dataclass: the generated __init__ stores each argument
KeepActiveConfig(a) ==
    [min_wait_seconds |-> a.min_wait_seconds,
     max_wait_seconds |-> a.max_wait_seconds,
     mouse_move_duration |-> a.mouse_move_duration,
     post_click_pause |-> a.post_click_pause,
     enable_failsafe |-> a.enable_failsafe,
     use_screen_center |-> a.use_screen_center,
     verbose |-> a.verbose,
     constructed |-> TRUE]

\* a sampler whose upper end is one past max_wait_seconds
get_random_wait_timePastMax(c) == c.min_wait_seconds .. c.max_wait_seconds + 1

\* random.randint(min, max): any integer of the inclusive range
get_random_wait_time(c) == c.min_wait_seconds .. c.max_wait_seconds

----------------------------------------------------------------------------
(* mouse.py *)

Position(x, y) == [x |-> x, y |-> y]

ScreenSize(w, h) == [width |-> w, height |-> h]

\* a centre that rounds halves up
centerRoundsUp(s) == Position((s.width + 1) \div 2, (s.height + 1) \div 2)

\* ScreenSize.center: floor division of both dimensions
center(s) == Position(s.width \div 2, s.height \div 2)

\* answers the provider may give
Positions == {Position(0, 0), Position(3, 1)}

ScreenSizes == {ScreenSize(5, 3), ScreenSize(6, 4)}

----------------------------------------------------------------------------
(* controller.py *)

None == <<>>

\* arguments run() is invoked with
MaxIterationsArgs == {None} \cup {<<n>> : n \in 0 .. MaxIteration}

\* configurations the controller is run with: valid ones only
RunArgs ==
    {a \in AllArgs : /\ PostInit(a) = NoError
                     /\ a.min_wait_seconds = 1
                     /\ a.use_screen_center
                     /\ a.mouse_move_duration = 1
                     /\ a.post_click_pause = 0}

\* positions of run() inside its try block
InTry == {"while", "increment", "wait_sleep", "get_position",
          "get_screen_size", "move_to", "double_click", "pause", "check_max"}

\* positions of run() inside an iteration, after the counter was incremented
InIteration == {"wait_sleep", "get_position", "get_screen_size", "move_to",
                "double_click", "pause"}

InRun == {"L148", "L149", "setup"} \cup InTry

\* a _log that ignores config.verbose
logAlways(out, line) == Append(out, line)

\* _log: print only when verbose
log(out, line) == IF config.verbose THEN Append(out, line) ELSE out

\* a collaborator call as the mocks record it; ok is FALSE when it raised
Call(op, ok) == [op |-> op, it |-> iteration, ok |-> ok]

SleepCall(tenths, ok) ==
    [op |-> "sleep", it |-> iteration, ok |-> ok, tenths |-> tenths]

MoveCall(p, d, ok) ==
    [op |-> "move_to", it |-> iteration, ok |-> ok, position |-> p,
     duration |-> d]

FailsafeCall(b, ok) ==
    [op |-> "set_failsafe", it |-> iteration, ok |-> ok, enabled |-> b]

NoThrow == [exc |-> "", at |-> ""]

\* KeepActiveController.__init__: not running, nothing counted
ControllerInit ==
    /\ running = FALSE
    /\ iteration = 0
    /\ max_iterations = None
    /\ wait_time = 0
    /\ current_pos = Position(0, 0)
    /\ target_pos = Position(0, 0)
    /\ screen = ScreenSize(0, 0)
    /\ exit = "none"
    /\ calls = <<>>
    /\ output = <<>>
    /\ runNo = 0
    /\ prevIteration = 0
    /\ stopped = FALSE
    /\ stopDuring = {}
    /\ stopAt = <<>>
    /\ stopIdle = FALSE
    /\ thrown = NoThrow

\* a controller constructed with a valid configuration, idle
Init ==
    /\ args \in RunArgs
    /\ config = KeepActiveConfig(args)
    /\ raised = NoError
    /\ pc = "idle"
    /\ pair = <<>>
    /\ ControllerInit

\* another actor invokes run(max_iterations=m) on the idle controller
Run(m) ==
    /\ pc \in {"idle", "returned"}
    /\ runNo < MaxRuns
    /\ pc' = "L148"
    /\ max_iterations' = m
    /\ runNo' = runNo + 1
    /\ prevIteration' = iteration
    /\ calls' = <<>>
    /\ output' = <<>>
    /\ stopped' = FALSE
    /\ stopDuring' = {}
    /\ exit' = "none"
    /\ wait_time' = 0
    /\ current_pos' = Position(0, 0)
    /\ target_pos' = Position(0, 0)
    /\ screen' = ScreenSize(0, 0)
    /\ stopAt' = <<>>
    /\ thrown' = NoThrow
    /\ UNCHANGED <<cfgVars, pair, stopIdle, running, iteration>>

\* a run() that leaves the flag as it finds it
SetRunningKeepsFlag ==
    /\ pc = "L148"
    /\ running' = running
    /\ pc' = "L149"
    /\ UNCHANGED <<cfgVars, pair, stopIdle, screen, stopAt,
                   iteration, max_iterations, wait_time, current_pos,
                   target_pos, exit, calls, output, runNo, prevIteration,
                   stopped, stopDuring, thrown>>

\* line 148: self._running = True
SetRunning ==
    /\ pc = "L148"
    /\ running' = TRUE
    /\ pc' = "L149"
    /\ UNCHANGED <<cfgVars, pair, stopIdle, screen, stopAt,
                   iteration, max_iterations, wait_time, current_pos,
                   target_pos, exit, calls, output, runNo, prevIteration,
                   stopped, stopDuring, thrown>>

\* run() that forgets to reset the counter
ResetIterationMissing ==
    /\ pc = "L149"
    /\ pc' = "setup"
    /\ UNCHANGED <<cfgVars, pair, stopIdle, screen, stopAt,
                   running, iteration, max_iterations, wait_time,
                   current_pos, target_pos, exit, calls, output, runNo,
                   prevIteration, stopped, stopDuring, thrown>>

\* line 149: self._iteration = 0
ResetIteration ==
    /\ pc = "L149"
    /\ iteration' = 0
    /\ pc' = "setup"
    /\ UNCHANGED <<cfgVars, pair, stopIdle, screen, stopAt,
                   running, max_iterations, wait_time, current_pos,
                   target_pos, exit, calls, output, runNo, prevIteration,
                   stopped, stopDuring, thrown>>

\* a _setup that switches the failsafe on whatever the configuration says
SetupFailsafeAlwaysOn ==
    /\ pc = "setup"
    /\ calls' = Append(calls, FailsafeCall(TRUE, TRUE))
    /\ output' = log(log(log(output, [text |-> "Keep Active Script Started"]),
                         [text |-> "Press Ctrl+C to stop"]),
                     [text |-> "----------------------------------------"])
    /\ pc' = "while"
    /\ UNCHANGED <<cfgVars, pair, stopIdle, screen, stopAt,
                   running, iteration, max_iterations, wait_time,
                   current_pos, target_pos, exit, runNo, prevIteration,
                   stopped, stopDuring, thrown>>

\* line 150: _setup(), outside the try block
Setup ==
    /\ pc = "setup"
    /\ calls' = Append(calls, FailsafeCall(config.enable_failsafe, TRUE))
    /\ output' = log(log(log(output, [text |-> "Keep Active Script Started"]),
                         [text |-> "Press Ctrl+C to stop"]),
                     [text |-> "----------------------------------------"])
    /\ pc' = "while"
    /\ UNCHANGED <<cfgVars, pair, stopIdle, screen, stopAt,
                   running, iteration, max_iterations, wait_time,
                   current_pos, target_pos, exit, runNo, prevIteration,
                   stopped, stopDuring, thrown>>

\* a loop that never looks at the flag (while True)
WhileIgnoresFlag ==
    /\ pc = "while"
    /\ iteration < MaxIteration
    /\ pc' = "increment"
    /\ UNCHANGED <<cfgVars, pair, stopIdle, screen, stopAt,
                   running, iteration, max_iterations, wait_time,
                   current_pos, target_pos, exit, calls, output, runNo,
                   prevIteration, stopped, stopDuring, thrown>>

\* line 153: while self._running
While ==
    /\ pc = "while"
    /\ IF running
         THEN /\ iteration < MaxIteration
              /\ pc' = "increment"
         ELSE pc' = "returned"
    /\ UNCHANGED <<cfgVars, pair, stopIdle, screen, stopAt,
                   running, iteration, max_iterations, wait_time,
                   current_pos, target_pos, exit, calls, output, runNo,
                   prevIteration, stopped, stopDuring, thrown>>

\* an iteration that logs the counter as it was before the increment
IncrementLogsOld ==
    /\ pc = "increment"
    /\ iteration' = iteration + 1
    /\ \E w \in get_random_wait_time(config) :
         /\ wait_time' = w
         /\ output' = log(output, [text |-> "Waiting", n |-> iteration,
                                   k |-> w])
    /\ pc' = "wait_sleep"
    /\ UNCHANGED <<cfgVars, pair, stopIdle, screen, stopAt,
                   running, max_iterations, current_pos, target_pos,
                   exit, calls, runNo, prevIteration, stopped, stopDuring, thrown>>

\* lines 124-127: count the iteration, sample the wait time, log it
Increment ==
    /\ pc = "increment"
    /\ iteration' = iteration + 1
    /\ \E w \in get_random_wait_time(config) :
         /\ wait_time' = w
         /\ output' = log(output, [text |-> "Waiting", n |-> iteration + 1,
                                   k |-> w])
    /\ pc' = "wait_sleep"
    /\ UNCHANGED <<cfgVars, pair, stopIdle, screen, stopAt,
                   running, max_iterations, current_pos, target_pos,
                   exit, calls, runNo, prevIteration, stopped, stopDuring, thrown>>

\* line 128: self._sleep(wait_time)
WaitSleep ==
    /\ pc = "wait_sleep"
    /\ calls' = Append(calls, SleepCall(wait_time * 10, TRUE))
    /\ pc' = "get_position"
    /\ UNCHANGED <<cfgVars, pair, stopIdle, screen, stopAt,
                   running, iteration, max_iterations, wait_time,
                   current_pos, target_pos, exit, output, runNo,
                   prevIteration, stopped, stopDuring, thrown>>

\* an activity that moves right after get_position, to the target it had
GetPositionOnly ==
    /\ pc = "get_position"
    /\ current_pos' \in Positions
    /\ calls' = Append(calls, Call("get_position", TRUE))
    /\ pc' = "move_to"
    /\ UNCHANGED <<cfgVars, pair, stopIdle, screen, stopAt,
                   running, iteration, max_iterations, wait_time,
                   target_pos, exit, output, runNo, prevIteration, stopped,
                   stopDuring, thrown>>

\* line 103: current_pos = self.mouse.get_position()
GetPosition ==
    /\ pc = "get_position"
    /\ current_pos' \in Positions
    /\ calls' = Append(calls, Call("get_position", TRUE))
    /\ pc' = "get_screen_size"
    /\ UNCHANGED <<cfgVars, pair, stopIdle, screen, stopAt,
                   running, iteration, max_iterations, wait_time,
                   target_pos, exit, output, runNo, prevIteration, stopped,
                   stopDuring, thrown>>

\* a target strategy that reads use_screen_center: the centre of the screen,
\* or the screen's origin
calculate_target_positionByStrategy(c, s) ==
    IF c.use_screen_center THEN center(s) ELSE Position(0, 0)

\* lines 81-89: _calculate_target_position on the screen size s the provider
\* reports; the configuration c is at hand (self.config) and is not read
calculate_target_position(c, s) == center(s)

\* lines 104, 88-89: target_pos = self.mouse.get_screen_size().center
CalculateTargetPosition ==
    /\ pc = "get_screen_size"
    /\ \E s \in ScreenSizes :
         /\ screen' = s
         /\ target_pos' = calculate_target_position(config, s)
    /\ calls' = Append(calls, Call("get_screen_size", TRUE))
    /\ pc' = "move_to"
    /\ UNCHANGED <<cfgVars, pair, stopIdle, stopAt,
                   running, iteration, max_iterations, wait_time,
                   current_pos, exit, output, runNo, prevIteration, stopped,
                   stopDuring, thrown>>

\* lines 106-107: log, then self.mouse.move_to(target_pos, duration=...)
MoveTo ==
    /\ pc = "move_to"
    /\ output' = log(output, [text |-> "Moving mouse", from |-> current_pos,
                              to |-> target_pos])
    /\ calls' = Append(calls, MoveCall(target_pos, config.mouse_move_duration,
                                       TRUE))
    /\ pc' = "double_click"
    /\ UNCHANGED <<cfgVars, pair, stopIdle, screen, stopAt,
                   running, iteration, max_iterations, wait_time,
                   current_pos, target_pos, exit, runNo, prevIteration,
                   stopped, stopDuring, thrown>>

\* lines 109-110: log, then self.mouse.double_click()
DoubleClick ==
    /\ pc = "double_click"
    /\ output' = log(output, [text |-> "Double clicking..."])
    /\ calls' = Append(calls, Call("double_click", TRUE))
    /\ pc' = "pause"
    /\ UNCHANGED <<cfgVars, pair, stopIdle, screen, stopAt,
                   running, iteration, max_iterations, wait_time,
                   current_pos, target_pos, exit, runNo, prevIteration,
                   stopped, stopDuring, thrown>>

\* a pause guarded by the truth value of post_click_pause
PauseSkippedWhenZero ==
    /\ pc = "pause"
    /\ calls' = IF config.post_click_pause # 0
                  THEN Append(calls, SleepCall(config.post_click_pause, TRUE))
                  ELSE calls
    /\ pc' = "check_max"
    /\ UNCHANGED <<cfgVars, pair, stopIdle, screen, stopAt,
                   running, iteration, max_iterations, wait_time,
                   current_pos, target_pos, exit, output, runNo,
                   prevIteration, stopped, stopDuring, thrown>>

\* _perform_activity that skips the pause once stop() was called
PauseUnlessStopped ==
    /\ pc = "pause"
    /\ calls' = IF running
                  THEN Append(calls, SleepCall(config.post_click_pause, TRUE))
                  ELSE calls
    /\ pc' = "check_max"
    /\ UNCHANGED <<cfgVars, pair, stopIdle, screen, stopAt,
                   running, iteration, max_iterations, wait_time,
                   current_pos, target_pos, exit, output, runNo,
                   prevIteration, stopped, stopDuring, thrown>>

\* line 113: self._sleep(self.config.post_click_pause)
Pause ==
    /\ pc = "pause"
    /\ calls' = Append(calls, SleepCall(config.post_click_pause, TRUE))
    /\ pc' = "check_max"
    /\ UNCHANGED <<cfgVars, pair, stopIdle, screen, stopAt,
                   running, iteration, max_iterations, wait_time,
                   current_pos, target_pos, exit, output, runNo,
                   prevIteration, stopped, stopDuring, thrown>>

\* a max_iterations test that also breaks when no maximum was given
CheckMaxBreaksOnNone ==
    /\ pc = "check_max"
    /\ IF max_iterations = None \/ iteration >= max_iterations[1]
         THEN /\ output' = log(output, [text |-> "Completed",
                                        n |-> iteration])
              /\ pc' = "returned"
         ELSE /\ output' = output
              /\ pc' = "while"
    /\ UNCHANGED <<cfgVars, pair, stopIdle, screen, stopAt,
                   running, iteration, max_iterations, wait_time,
                   current_pos, target_pos, exit, calls, runNo,
                   prevIteration, stopped, stopDuring, thrown>>

\* a max_iterations test that logs completion but forgets the break
CheckMaxNeverBreaks ==
    /\ pc = "check_max"
    /\ output' = IF max_iterations # None /\ iteration >= max_iterations[1]
                   THEN log(output, [text |-> "Completed",
                                     n |-> max_iterations[1]])
                   ELSE output
    /\ pc' = "while"
    /\ UNCHANGED <<cfgVars, pair, stopIdle, screen, stopAt,
                   running, iteration, max_iterations, wait_time,
                   current_pos, target_pos, exit, calls, runNo,
                   prevIteration, stopped, stopDuring, thrown>>

\* the max_iterations test written with > instead of >=
CheckMaxOffByOne ==
    /\ pc = "check_max"
    /\ IF max_iterations # None /\ iteration > max_iterations[1]
         THEN /\ output' = log(output, [text |-> "Completed",
                                        n |-> max_iterations[1]])
              /\ pc' = "returned"
         ELSE /\ output' = output
              /\ pc' = "while"
    /\ UNCHANGED <<cfgVars, pair, stopIdle, screen, stopAt,
                   running, iteration, max_iterations, wait_time,
                   current_pos, target_pos, exit, calls, runNo,
                   prevIteration, stopped, stopDuring, thrown>>

\* lines 157-159: leave the loop once max_iterations is reached
CheckMax ==
    /\ pc = "check_max"
    /\ IF max_iterations # None /\ iteration >= max_iterations[1]
         THEN /\ output' = log(output, [text |-> "Completed",
                                        n |-> max_iterations[1]])
              /\ pc' = "returned"
         ELSE /\ output' = output
              /\ pc' = "while"
    /\ UNCHANGED <<cfgVars, pair, stopIdle, screen, stopAt,
                   running, iteration, max_iterations, wait_time,
                   current_pos, target_pos, exit, calls, runNo,
                   prevIteration, stopped, stopDuring, thrown>>

\* the call run() is about to make, as it is recorded when it raises
FailingCall ==
    CASE pc = "wait_sleep" -> SleepCall(wait_time * 10, FALSE)
      [] pc = "get_position" -> Call("get_position", FALSE)
      [] pc = "get_screen_size" -> Call("get_screen_size", FALSE)
      [] pc = "move_to" -> MoveCall(target_pos, config.mouse_move_duration,
                                    FALSE)
      [] pc = "double_click" -> Call("double_click", FALSE)
      [] pc = "pause" -> SleepCall(config.post_click_pause, FALSE)

\* lines printed by _perform_activity right before the call that raises
LoggedBeforeCall ==
    CASE pc = "move_to" -> log(output, [text |-> "Moving mouse",
                                        from |-> current_pos,
                                        to |-> target_pos])
      [] pc = "double_click" -> log(output, [text |-> "Double clicking..."])
      [] OTHER -> output

\* a handler that logs the error and lets the loop go on
CollaboratorFailsAndContinues ==
    /\ pc \in InIteration
    /\ calls' = Append(calls, FailingCall)
    /\ output' = log(LoggedBeforeCall, [text |-> "Error"])
    /\ thrown' = [exc |-> "Exception", at |-> pc]
    /\ pc' = "while"
    /\ UNCHANGED <<cfgVars, pair, stopIdle, screen, stopAt,
                   running, iteration, max_iterations, wait_time,
                   current_pos, target_pos, exit, runNo, prevIteration,
                   stopped, stopDuring>>

\* lines 164-166: a collaborator raises inside the loop; log, sys.exit(1)
CollaboratorFails ==
    /\ pc \in InIteration
    /\ calls' = Append(calls, FailingCall)
    /\ output' = log(LoggedBeforeCall, [text |-> "Error"])
    /\ exit' = "1"
    /\ thrown' = [exc |-> "Exception", at |-> pc]
    /\ pc' = "exited"
    /\ UNCHANGED <<cfgVars, pair, stopIdle, screen, stopAt,
                   running, iteration, max_iterations, wait_time,
                   current_pos, target_pos, runNo, prevIteration, stopped,
                   stopDuring>>

\* line 150: set_failsafe raises in _setup(), which no handler covers
SetupFails ==
    /\ pc = "setup"
    /\ calls' = Append(calls, FailsafeCall(config.enable_failsafe, FALSE))
    /\ exit' = "Exception"
    /\ thrown' = [exc |-> "Exception", at |-> pc]
    /\ pc' = "exited"
    /\ UNCHANGED <<cfgVars, pair, stopIdle, screen, stopAt,
                   running, iteration, max_iterations, wait_time,
                   current_pos, target_pos, output, runNo, prevIteration,
                   stopped, stopDuring>>

\* lines 161-163: KeyboardInterrupt inside the try block; log, sys.exit(0)
InterruptInLoop ==
    /\ pc \in InTry
    /\ output' = log(output, [text |-> "Script stopped by user"])
    /\ exit' = "0"
    /\ thrown' = [exc |-> "KeyboardInterrupt", at |-> pc]
    /\ pc' = "exited"
    /\ UNCHANGED <<cfgVars, pair, stopIdle, screen, stopAt,
                   running, iteration, max_iterations, wait_time,
                   current_pos, target_pos, calls, runNo, prevIteration,
                   stopped, stopDuring>>

\* lines 148-150: KeyboardInterrupt before the try block is entered
InterruptBeforeLoop ==
    /\ pc \in {"L148", "L149", "setup"}
    /\ exit' = "KeyboardInterrupt"
    /\ thrown' = [exc |-> "KeyboardInterrupt", at |-> pc]
    /\ pc' = "exited"
    /\ UNCHANGED <<cfgVars, pair, stopIdle, screen, stopAt,
                   running, iteration, max_iterations, wait_time,
                   current_pos, target_pos, calls, output, runNo,
                   prevIteration, stopped, stopDuring>>

\* a stop() that also resets the iteration counter
StopResetsCounter ==
    /\ pc # "exited"
    /\ running' = FALSE
    /\ iteration' = 0
    /\ stopped' = (stopped \/ pc \in InRun)
    /\ stopDuring' = IF pc \in InIteration
                       THEN stopDuring \cup {iteration}
                       ELSE stopDuring
    /\ stopAt' = IF pc \in InTry /\ stopAt = <<>>
                   THEN <<pc, iteration>>
                   ELSE stopAt
    /\ stopIdle' = (stopIdle \/ pc \notin InRun)
    /\ UNCHANGED <<cfgVars, pair, screen,
                   max_iterations, wait_time, current_pos,
                   target_pos, pc, exit, calls, output, runNo, prevIteration,
                   thrown>>

\* a stop() that flips the flag instead of clearing it
StopToggles ==
    /\ pc # "exited"
    /\ running' = ~running
    /\ stopped' = (stopped \/ pc \in InRun)
    /\ stopDuring' = IF pc \in InIteration
                       THEN stopDuring \cup {iteration}
                       ELSE stopDuring
    /\ stopAt' = IF pc \in InTry /\ stopAt = <<>>
                   THEN <<pc, iteration>>
                   ELSE stopAt
    /\ stopIdle' = (stopIdle \/ pc \notin InRun)
    /\ UNCHANGED <<cfgVars, pair, screen,
                   iteration, max_iterations, wait_time, current_pos,
                   target_pos, pc, exit, calls, output, runNo, prevIteration,
                   thrown>>

\* lines 168-175: stop(), from any other actor at any time
Stop ==
    /\ pc # "exited"
    /\ running' = FALSE
    /\ stopped' = (stopped \/ pc \in InRun)
    /\ stopDuring' = IF pc \in InIteration
                       THEN stopDuring \cup {iteration}
                       ELSE stopDuring
    /\ stopAt' = IF pc \in InTry /\ stopAt = <<>>
                   THEN <<pc, iteration>>
                   ELSE stopAt
    /\ stopIdle' = (stopIdle \/ pc \notin InRun)
    /\ UNCHANGED <<cfgVars, pair, screen,
                   iteration, max_iterations, wait_time, current_pos,
                   target_pos, pc, exit, calls, output, runNo, prevIteration,
                   thrown>>

\* the steps of run() when nothing raises
RunStep ==
    \/ SetRunning
    \/ ResetIteration
    \/ Setup
    \/ While
    \/ Increment
    \/ WaitSleep
    \/ GetPosition
    \/ CalculateTargetPosition
    \/ MoveTo
    \/ DoubleClick
    \/ Pause
    \/ CheckMax

Next ==
    \/ \E m \in MaxIterationsArgs : Run(m)
    \/ RunStep
    \/ CollaboratorFails
    \/ SetupFails
    \/ InterruptInLoop
    \/ InterruptBeforeLoop
    \/ Stop

Spec == Init /\ [][Next]_vars

----------------------------------------------------------------------------
(* Construction of the configuration on every argument tuple *)

ctlVars == <<running, iteration, max_iterations, wait_time, current_pos,
             target_pos, screen, exit, calls, output, runNo, prevIteration,
             stopped, stopDuring, stopAt, stopIdle, thrown>>

ConfigInit ==
    /\ args \in AllArgs
    /\ config = NotConstructed
    /\ raised = NoError
    /\ pc = "new"
    /\ pair = <<>>
    /\ ControllerInit

\* KeepActiveConfig(**args): __init__ stores the fields, __post_init__ validates
Construct ==
    /\ pc = "new"
    /\ raised' = PostInit(args)
    /\ IF PostInit(args) = NoError
         THEN /\ config' = KeepActiveConfig(args)
              /\ pc' = "idle"
         ELSE /\ config' = NotConstructed
              /\ pc' = "invalid"
    /\ UNCHANGED <<args, pair, ctlVars>>

ConfigNext == Construct

ConfigSpec == ConfigInit /\ [][ConfigNext]_vars

----------------------------------------------------------------------------
(* run() with collaborators that always return, fairly scheduled *)

LiveNext ==
    \/ \E m \in MaxIterationsArgs : Run(m)
    \/ RunStep
    \/ Stop

\* the thread executing run() is never starved
LiveSpec == Init /\ [][LiveNext]_vars /\ WF_vars(RunStep)

----------------------------------------------------------------------------
(* run() as a function of a run's state, to execute two runs side by side *)

\* what a run makes observable: a provider command, a sleep or a printed line
Observed(act, text, on, nums) ==
    [act |-> act, text |-> text, on |-> on, nums |-> nums]

\* _log on the observations t of a run with configuration c
say(c, t, text, nums) ==
    IF c.verbose THEN Append(t, Observed("print", text, FALSE, nums)) ELSE t

\* the state of a run() just invoked on a fresh controller
NewRun(c, m) ==
    [config |-> c, max_iterations |-> m, running |-> FALSE, iteration |-> 0,
     wait_time |-> 0, current_pos |-> Position(0, 0),
     target_pos |-> Position(0, 0), pc |-> "L148", exit |-> "none",
     thrown |-> NoThrow, trace |-> <<>>]

\* lines 148-159 and 91-130: the next step of run() in state r, when the
\* sampler answers w, the provider reports screen size s and cursor position p
ControllerStep(r, w, s, p) ==
    CASE r.pc = "L148" -> [r EXCEPT !.running = TRUE, !.pc = "L149"]
      [] r.pc = "L149" -> [r EXCEPT !.iteration = 0, !.pc = "setup"]
      [] r.pc = "setup" ->
           [r EXCEPT
              !.trace = say(r.config,
                            say(r.config,
                                say(r.config,
                                    Append(@, Observed("set_failsafe", "",
                                               r.config.enable_failsafe,
                                               <<>>)),
                                    "Keep Active Script Started", <<>>),
                                "Press Ctrl+C to stop", <<>>),
                            "----------------------------------------", <<>>),
              !.pc = "while"]
      [] r.pc = "while" ->
           [r EXCEPT !.pc = IF r.running THEN "increment" ELSE "returned"]
      [] r.pc = "increment" ->
           [r EXCEPT !.iteration = @ + 1,
                     !.wait_time = w,
                     !.trace = say(r.config, @, "Waiting",
                                   <<r.iteration + 1, w>>),
                     !.pc = "wait_sleep"]
      [] r.pc = "wait_sleep" ->
           [r EXCEPT !.trace = Append(@, Observed("sleep", "", FALSE,
                                                  <<r.wait_time * 10>>)),
                     !.pc = "get_position"]
      [] r.pc = "get_position" ->
           [r EXCEPT !.current_pos = p, !.pc = "get_screen_size"]
      [] r.pc = "get_screen_size" ->
           [r EXCEPT !.target_pos = calculate_target_position(r.config, s),
                     !.pc = "move_to"]
      [] r.pc = "move_to" ->
           [r EXCEPT
              !.trace = Append(say(r.config, @, "Moving mouse",
                                   <<r.current_pos.x, r.current_pos.y,
                                     r.target_pos.x, r.target_pos.y>>),
                               Observed("move_to", "", FALSE,
                                        <<r.target_pos.x, r.target_pos.y,
                                          r.config.mouse_move_duration>>)),
              !.pc = "double_click"]
      [] r.pc = "double_click" ->
           [r EXCEPT
              !.trace = Append(say(r.config, @, "Double clicking...", <<>>),
                               Observed("double_click", "", FALSE, <<>>)),
              !.pc = "pause"]
      [] r.pc = "pause" ->
           [r EXCEPT !.trace = Append(@, Observed("sleep", "", FALSE,
                                          <<r.config.post_click_pause>>)),
                     !.pc = "check_max"]
      [] r.pc = "check_max" ->
           IF r.max_iterations # None /\ r.iteration >= r.max_iterations[1]
             THEN [r EXCEPT !.trace = say(r.config, @, "Completed",
                                          <<r.max_iterations[1]>>),
                            !.pc = "returned"]
             ELSE [r EXCEPT !.pc = "while"]
      [] OTHER -> r

\* lines 168-175: stop() on the run in state r
ControllerStop(r) == [r EXCEPT !.running = FALSE]

\* the pair's variables apart, nothing of the single controller moves
soloVars == <<cfgVars, ctlVars, pc>>

\* two runs on fresh controllers whose configurations differ in
\* use_screen_center only, invoked with the same max_iterations
PairInit ==
    /\ args \in RunArgs
    /\ config = KeepActiveConfig(args)
    /\ raised = NoError
    /\ pc = "idle"
    /\ ControllerInit
    /\ \E m \in MaxIterationsArgs :
         pair = <<NewRun(config, m),
                  NewRun([config EXCEPT !.use_screen_center = ~@], m)>>

\* both runs take their next step; the sampler and get_screen_size answer both
\* alike, get_position answers each on its own
PairStep ==
    /\ pair[1].pc \in InRun
    /\ pair[1].pc = "while" /\ pair[1].running =>
         pair[1].iteration < MaxIteration
    /\ \E w \in get_random_wait_time(config), s \in ScreenSizes,
          p1 \in Positions, p2 \in Positions :
         pair' = <<ControllerStep(pair[1], w, s, p1),
                   ControllerStep(pair[2], w, s, p2)>>
    /\ UNCHANGED soloVars

\* stop() reaches both runs at the same point
PairStop ==
    /\ pair[1].pc \in InRun
    /\ pair[1].running
    /\ pair' = <<ControllerStop(pair[1]), ControllerStop(pair[2])>>
    /\ UNCHANGED soloVars

PairNext ==
    \/ PairStep
    \/ PairStop

PairSpec == PairInit /\ [][PairNext]_vars

----------------------------------------------------------------------------
(* main.py: the single-function variant, side by side with run() *)

LegacyMinWait == 30          \* random.randint(30, 60)
LegacyMaxWait == 60
LegacyMoveDuration == 5      \* duration=0.5, in tenths of a second
LegacyPause == 5             \* time.sleep(0.5), in tenths of a second

\* the field defaults of KeepActiveConfig
DefaultArgs ==
    [min_wait_seconds |-> 30, max_wait_seconds |-> 60,
     mouse_move_duration |-> 5, post_click_pause |-> 5,
     enable_failsafe |-> TRUE, use_screen_center |-> TRUE, verbose |-> TRUE]

\* print(...) on the observations t
printed(t, text, nums) == Append(t, Observed("print", text, FALSE, nums))

\* a target that rounds halves up
MainTargetRoundsUp(s) == Position((s.width + 1) \div 2, (s.height + 1) \div 2)

\* main.py lines 36-38: target_x, target_y = width // 2, height // 2
MainTarget(s) == Position(s.width \div 2, s.height \div 2)

\* positions of main() inside its try block
MainInTry == {"L23", "while", "increment", "wait_sleep", "get_position",
              "get_screen_size", "move_to", "double_click", "pause"}

\* main() just invoked
NewMain ==
    [iteration |-> 0, wait_time |-> 0, current_pos |-> Position(0, 0),
     target_pos |-> Position(0, 0), pc |-> "banner", exit |-> "none",
     thrown |-> NoThrow, trace |-> <<>>]

\* main.py lines 15-50: the next step of main() in state r, on the same
\* answers as ControllerStep
MainStep(r, w, s, p) ==
    CASE r.pc = "banner" ->
           [r EXCEPT
              !.trace = printed(printed(printed(@,
                                    "Keep Active Script Started", <<>>),
                                "Press Ctrl+C to stop", <<>>),
                            "----------------------------------------", <<>>),
              !.pc = "failsafe"]
      [] r.pc = "failsafe" ->
           [r EXCEPT !.trace = Append(@, Observed("set_failsafe", "", TRUE,
                                                  <<>>)),
                     !.pc = "L23"]
      [] r.pc = "L23" -> [r EXCEPT !.iteration = 0, !.pc = "while"]
      [] r.pc = "while" -> [r EXCEPT !.pc = "increment"]
      [] r.pc = "increment" ->
           [r EXCEPT !.iteration = @ + 1,
                     !.wait_time = w,
                     !.trace = printed(@, "Waiting", <<r.iteration + 1, w>>),
                     !.pc = "wait_sleep"]
      [] r.pc = "wait_sleep" ->
           [r EXCEPT !.trace = Append(@, Observed("sleep", "", FALSE,
                                                  <<r.wait_time * 10>>)),
                     !.pc = "get_position"]
      [] r.pc = "get_position" ->
           [r EXCEPT !.current_pos = p, !.pc = "get_screen_size"]
      [] r.pc = "get_screen_size" ->
           [r EXCEPT !.target_pos = MainTarget(s), !.pc = "move_to"]
      [] r.pc = "move_to" ->
           [r EXCEPT
              !.trace = Append(printed(@, "Moving mouse",
                                       <<r.current_pos.x, r.current_pos.y,
                                         r.target_pos.x, r.target_pos.y>>),
                               Observed("move_to", "", FALSE,
                                        <<r.target_pos.x, r.target_pos.y,
                                          LegacyMoveDuration>>)),
              !.pc = "double_click"]
      [] r.pc = "double_click" ->
           [r EXCEPT
              !.trace = Append(printed(@, "Double clicking...", <<>>),
                               Observed("double_click", "", FALSE, <<>>)),
              !.pc = "pause"]
      [] r.pc = "pause" ->
           [r EXCEPT !.trace = Append(@, Observed("sleep", "", FALSE,
                                                  <<LegacyPause>>)),
                     !.pc = "while"]
      [] OTHER -> r

\* main.py lines 52-54, or no handler: KeyboardInterrupt in state r
MainInterrupt(r) ==
    IF r.pc \in MainInTry
      THEN [r EXCEPT !.trace = printed(@, "Script stopped by user", <<>>),
                     !.exit = "0",
                     !.thrown = [exc |-> "KeyboardInterrupt", at |-> r.pc],
                     !.pc = "exited"]
      ELSE [r EXCEPT !.exit = "KeyboardInterrupt",
                     !.thrown = [exc |-> "KeyboardInterrupt", at |-> r.pc],
                     !.pc = "exited"]

\* controller.py lines 161-163, or no handler: KeyboardInterrupt in state r
ControllerInterrupt(r) ==
    IF r.pc \in InTry
      THEN [r EXCEPT !.trace = say(r.config, @, "Script stopped by user",
                                   <<>>),
                     !.exit = "0",
                     !.thrown = [exc |-> "KeyboardInterrupt", at |-> r.pc],
                     !.pc = "exited"]
      ELSE [r EXCEPT !.exit = "KeyboardInterrupt",
                     !.thrown = [exc |-> "KeyboardInterrupt", at |-> r.pc],
                     !.pc = "exited"]

\* the line either program prints right before the call it is about to make
BeforeCall(r) ==
    CASE r.pc = "move_to" ->
           <<"Moving mouse", <<r.current_pos.x, r.current_pos.y,
                               r.target_pos.x, r.target_pos.y>>>>
      [] r.pc = "double_click" -> <<"Double clicking...", <<>>>>
      [] OTHER -> <<>>

\* main.py lines 55-57: the call main() is about to make raises
MainError(r) ==
    [r EXCEPT !.trace = printed(IF BeforeCall(r) = <<>>
                                  THEN @
                                  ELSE printed(@, BeforeCall(r)[1],
                                               BeforeCall(r)[2]),
                                "Error", <<>>),
              !.exit = "1",
              !.thrown = [exc |-> "Exception", at |-> r.pc],
              !.pc = "exited"]

\* controller.py lines 164-166: the call run() is about to make raises
ControllerError(r) ==
    [r EXCEPT !.trace = say(r.config,
                            IF BeforeCall(r) = <<>>
                              THEN @
                              ELSE say(r.config, @, BeforeCall(r)[1],
                                       BeforeCall(r)[2]),
                            "Error", <<>>),
              !.exit = "1",
              !.thrown = [exc |-> "Exception", at |-> r.pc],
              !.pc = "exited"]

\* wait times both samplers can return; the ends of the range are tried
EquivWaits ==
    {w \in get_random_wait_time(config) \cap (LegacyMinWait .. LegacyMaxWait) :
       w \in {LegacyMinWait, LegacyMaxWait}}

\* run() on a controller with the default configuration, and main()
EquivInit ==
    /\ args = DefaultArgs
    /\ config = KeepActiveConfig(args)
    /\ raised = PostInit(args)
    /\ pc = "idle"
    /\ ControllerInit
    /\ pair = <<NewRun(config, None), NewMain>>

\* both programs are about to do the same thing
JointAt ==
    \/ pair[1].pc = "setup" /\ pair[2].pc = "banner"
    \/ pair[1].pc \in InTry /\ pair[2].pc = pair[1].pc

\* steps only run() has: lines 148, 149 and the max_iterations test
EquivControllerStep ==
    /\ pair[1].pc \in {"L148", "L149", "check_max"}
    /\ pair' = <<ControllerStep(pair[1], 0, ScreenSize(0, 0), Position(0, 0)),
                 pair[2]>>
    /\ UNCHANGED soloVars

\* steps main() takes after its banner, while run() is already at its loop
EquivMainStep ==
    /\ pair[1].pc = "while"
    /\ pair[2].pc \in {"failsafe", "L23"}
    /\ pair' = <<pair[1],
                 MainStep(pair[2], 0, ScreenSize(0, 0), Position(0, 0))>>
    /\ UNCHANGED soloVars

\* both take their next step, on the same answers
EquivStep ==
    /\ JointAt
    /\ pair[1].pc = "while" => pair[1].iteration < MaxIteration
    /\ \E w \in EquivWaits, s \in ScreenSizes, p \in Positions :
         pair' = <<ControllerStep(pair[1], w, s, p),
                   MainStep(pair[2], w, s, p)>>
    /\ UNCHANGED soloVars

\* Ctrl+C reaches both at the same point
EquivInterrupt ==
    /\ JointAt
    /\ pair' = <<ControllerInterrupt(pair[1]), MainInterrupt(pair[2])>>
    /\ UNCHANGED soloVars

\* the call both are about to make raises
EquivError ==
    /\ pair[1].pc \in InIteration
    /\ pair[2].pc = pair[1].pc
    /\ pair' = <<ControllerError(pair[1]), MainError(pair[2])>>
    /\ UNCHANGED soloVars

EquivNext ==
    \/ EquivControllerStep
    \/ EquivMainStep
    \/ EquivStep
    \/ EquivInterrupt
    \/ EquivError

EquivSpec == EquivInit /\ [][EquivNext]_vars

----------------------------------------------------------------------------
(* Properties *)

\* number of calls of op that returned, since run() was invoked
Count(op) == Cardinality({i \in DOMAIN calls : calls[i].op = op /\ calls[i].ok})

\* number of calls of op that returned, issued by iteration k
CountIn(k, op) ==
    Cardinality({i \in DOMAIN calls :
                   calls[i].op = op /\ calls[i].it = k /\ calls[i].ok})

\* run(max_iterations=n) with n >= 1 returned and stop() was never invoked
ReturnedUnstopped ==
    /\ pc = "returned"
    /\ max_iterations # None
    /\ max_iterations[1] >= 1
    /\ ~stopped

\* C1: a run(max_iterations=n), n >= 1, that returns without any stop() and
\* without a failing collaborator has issued exactly n move_to and exactly n
\* double_click commands, and its counter is n.
C1_ExactlyNCommands ==
    ReturnedUnstopped =>
        /\ Count("move_to") = max_iterations[1]
        /\ Count("double_click") = max_iterations[1]
        /\ iteration = max_iterations[1]

C1_Witness ==
    /\ ReturnedUnstopped
    /\ max_iterations = <<2>>
    /\ Count("move_to") = 2
    /\ Count("double_click") = 2

\* C2: once run(max_iterations=m) has reset the counter, the counter never
\* exceeds m, and run(max_iterations=0) issues no move_to and no double_click.
C2_CounterNeverExceedsMax ==
    (pc \in InTry \cup {"returned"} /\ max_iterations # None) =>
        /\ iteration <= max_iterations[1]
        /\ max_iterations[1] = 0 =>
             Count("move_to") = 0 /\ Count("double_click") = 0

\* C3: an iteration during which stop() was invoked is carried out in full:
\* once run() is past that iteration (and so before it returns) the
\* iteration's wait sleep, move_to, double_click and post-click sleep have
\* all been issued.
C3_StopDoesNotInterrupt ==
    pc \in {"check_max", "while", "increment", "returned"} =>
        \A k \in stopDuring :
            /\ CountIn(k, "sleep") = 2
            /\ CountIn(k, "move_to") = 1
            /\ CountIn(k, "double_click") = 1

C3_Witness ==
    /\ pc = "returned"
    /\ 1 \in stopDuring
    /\ CountIn(1, "sleep") = 2
    /\ CountIn(1, "double_click") = 1

\* C4: with max_iterations unset and collaborators that always return, a
\* stop() invoked at any time after run() was invoked (also before line 148
\* has set the flag) leads to run() returning.
C4_StopLeadsToReturn ==
    (pc \in InRun /\ max_iterations = None /\ stopped) ~> (pc = "returned")

\* C5: when run(max_iterations=n) has returned because the counter reached
\* n, the running flag is false.
C5_IdleAfterMaxIterations ==
    (pc = "returned" /\ max_iterations # None
       /\ iteration >= max_iterations[1]) => running = FALSE

\* C6: a KeyboardInterrupt raised anywhere in run(), one-time setup
\* included, ends the run with exit status 0 and, when verbose, with the
\* stop message logged.
C6_InterruptExitsZero ==
    thrown.exc = "KeyboardInterrupt" =>
        /\ exit = "0"
        /\ config.verbose =>
             /\ Len(output) > 0
             /\ output[Len(output)].text = "Script stopped by user"

\* C7: when a provider or sleep call raises inside an iteration, the process
\* exits with status 1 and the failing call is the last call of the run: no
\* move_to, double_click or sleep follows it and no later iteration starts.
C7_FailureIsFatal ==
    (thrown.exc = "Exception" /\ thrown.at \in InIteration) =>
        /\ pc = "exited"
        /\ exit = "1"
        /\ \A i \in DOMAIN calls : ~calls[i].ok => i = Len(calls)
        /\ iteration = calls[Len(calls)].it

C7_Witness ==
    /\ thrown = [exc |-> "Exception", at |-> "double_click"]
    /\ exit = "1"
    /\ iteration = 2
    /\ Count("move_to") = 2
    /\ Count("double_click") = 1

\* C8: every run() resets the counter to 0 before its setup, and a second
\* run(max_iterations=n), n >= 1, during which stop() is not invoked performs
\* exactly n iterations numbered 1..n, whatever the earlier run counted and
\* whether or not it was stopped.
C8_Reentrant ==
    /\ pc = "setup" => iteration = 0
    /\ (runNo >= 2 /\ ReturnedUnstopped) =>
         /\ iteration = max_iterations[1]
         /\ \A k \in 1 .. max_iterations[1] : CountIn(k, "move_to") = 1
         /\ \A i \in DOMAIN calls :
              calls[i].op = "move_to" => calls[i].it \in 1 .. max_iterations[1]

C8_Witness ==
    /\ runNo = 2
    /\ ReturnedUnstopped
    /\ prevIteration = 2
    /\ max_iterations = <<1>>
    /\ iteration = 1
    /\ CountIn(1, "move_to") = 1

\* some timing argument is negative
AnyNegative ==
    \/ args.min_wait_seconds < 0
    \/ args.max_wait_seconds < 0
    \/ args.mouse_move_duration < 0
    \/ args.post_click_pause < 0

\* C9: construction fails exactly when a timing argument is negative or
\* min_wait_seconds > max_wait_seconds; otherwise (equal bounds included) the
\* configuration holds exactly the supplied values.
C9_ValidationIff ==
    pc # "new" =>
        /\ (raised # NoError) <=>
             (AnyNegative \/ args.min_wait_seconds > args.max_wait_seconds)
        /\ raised # NoError => config = NotConstructed
        /\ raised = NoError =>
             /\ config.constructed
             /\ config.min_wait_seconds = args.min_wait_seconds
             /\ config.max_wait_seconds = args.max_wait_seconds
             /\ config.mouse_move_duration = args.mouse_move_duration
             /\ config.post_click_pause = args.post_click_pause
             /\ config.enable_failsafe = args.enable_failsafe
             /\ config.use_screen_center = args.use_screen_center
             /\ config.verbose = args.verbose

C9_Witness ==
    /\ pc = "idle"
    /\ raised = NoError
    /\ args.min_wait_seconds = 1
    /\ args.max_wait_seconds = 1
    /\ config.min_wait_seconds = 1
    /\ config.max_wait_seconds = 1

\* C10: the error is "cannot be negative" whenever a timing argument is
\* negative, even if min_wait_seconds > max_wait_seconds too, and it is
\* "cannot be greater than" exactly when no argument is negative and
\* min_wait_seconds > max_wait_seconds.
C10_ErrorKind ==
    pc # "new" =>
        /\ AnyNegative => raised.kind = "cannot be negative"
        /\ (raised.kind = "cannot be greater than") <=>
             (~AnyNegative /\ args.min_wait_seconds > args.max_wait_seconds)

C10_Witness ==
    /\ pc = "invalid"
    /\ args.min_wait_seconds > args.max_wait_seconds
    /\ args.post_click_pause < 0
    /\ args.max_wait_seconds >= 0
    /\ raised = ValueError("post_click_pause", "cannot be negative")

\* the wait sleeps among calls: the first sleep issued by each iteration
WaitSleeps ==
    {i \in DOMAIN calls :
       /\ calls[i].op = "sleep"
       /\ \A j \in 1 .. (i - 1) :
            ~(calls[j].op = "sleep" /\ calls[j].it = calls[i].it)}

\* C11: the wait time sampled for an iteration, and so the duration of every
\* wait sleep of a run, is a whole number of seconds w with
\* min_wait_seconds <= w <= max_wait_seconds; with equal bounds k it is k.
C11_WaitInRange ==
    /\ pc \in InIteration =>
         /\ config.min_wait_seconds <= wait_time
         /\ wait_time <= config.max_wait_seconds
    /\ \A i \in WaitSleeps :
         /\ config.min_wait_seconds * 10 <= calls[i].tenths
         /\ calls[i].tenths <= config.max_wait_seconds * 10
         /\ calls[i].tenths % 10 = 0
         /\ config.min_wait_seconds = config.max_wait_seconds =>
              calls[i].tenths = config.min_wait_seconds * 10

C11_Witness ==
    /\ pc = "returned"
    /\ config.min_wait_seconds = 1
    /\ config.max_wait_seconds = 2
    /\ \E i \in WaitSleeps : calls[i].tenths = 10 /\ calls[i].ok
    /\ \E i \in WaitSleeps : calls[i].tenths = 20 /\ calls[i].ok

\* C12: the move_to command of an iteration targets exactly
\* (width div 2, height div 2), floor division, of the screen size the
\* provider reported in that iteration, and its duration is
\* config.mouse_move_duration.
C12_TargetIsCenter ==
    \A i \in DOMAIN calls :
        calls[i].op = "move_to" =>
            /\ calls[i].duration = config.mouse_move_duration
            /\ calls[i].it = iteration =>
                 /\ 2 * calls[i].position.x <= screen.width
                 /\ screen.width < 2 * calls[i].position.x + 2
                 /\ 2 * calls[i].position.y <= screen.height
                 /\ screen.height < 2 * calls[i].position.y + 2

C12_Witness ==
    /\ pc = "double_click"
    /\ screen = ScreenSize(5, 3)
    /\ calls[Len(calls)].op = "move_to"
    /\ calls[Len(calls)].position = Position(2, 1)
    /\ calls[Len(calls)].duration = 1

\* C13: with verbose false nothing is ever handed to the output function,
\* however many iterations run and however the run ends.
C13_QuietWhenNotVerbose ==
    ~config.verbose => output = <<>>

C13_Witness ==
    /\ ~config.verbose
    /\ pc = "exited"
    /\ thrown.exc = "Exception"
    /\ iteration = 2
    /\ Count("double_click") = 1
    /\ output = <<>>

\* C14: a run() calls set_failsafe exactly once, with config.enable_failsafe,
\* and before any sleep, move_to or double_click: nothing is issued before
\* _setup, the loop is entered only after the call, the call is the first
\* of the run and no later call is a set_failsafe.
C14_FailsafeOnceFirst ==
    /\ pc \in {"L148", "L149", "setup"} => calls = <<>>
    /\ pc \in InTry \cup {"returned"} => Len(calls) >= 1
    /\ Len(calls) >= 1 =>
         /\ calls[1].op = "set_failsafe"
         /\ calls[1].enabled = config.enable_failsafe
         /\ \A i \in 2 .. Len(calls) : calls[i].op # "set_failsafe"

C14_Witness ==
    /\ pc = "returned"
    /\ ~config.enable_failsafe
    /\ calls[1].op = "set_failsafe"
    /\ calls[1].enabled = FALSE
    /\ calls[1].ok
    /\ Count("sleep") = 4
    /\ Count("double_click") = 2

\* the fields of the controller and what it has done, without the history
progVars == <<config, running, iteration, max_iterations, wait_time,
              current_pos, target_pos, screen, pc, exit, calls, output>>

\* C15: every stop() leaves the running flag false, whatever it was, in the
\* very step it is called, and a stop() on a controller whose flag is already
\* false (as after a first stop()) changes nothing: stop() is idempotent.
C15_StopImmediateIdempotent ==
    [][Stop => /\ running' = FALSE
               /\ ~running => UNCHANGED progVars]_vars

C15_Witness ==
    /\ pc = "move_to"
    /\ ~running
    /\ stopAt = <<"move_to", 1>>
    /\ iteration = 1

\* the collaborator calls of one iteration, in order
IterationCalls ==
    <<"sleep", "get_position", "get_screen_size", "move_to", "double_click",
      "sleep">>

\* C16: after set_failsafe, the calls of a run are the calls of iteration 1,
\* then of iteration 2, ..., each iteration in the order sleep(wait time),
\* get_position, get_screen_size, move_to, double_click,
\* sleep(post_click_pause); so a double_click directly follows the move_to of
\* its iteration and the sleeps alternate wait, pause.
C16_CallOrder ==
    \A i \in 2 .. Len(calls) :
        /\ calls[i].op = IterationCalls[((i - 2) % 6) + 1]
        /\ calls[i].it = ((i - 2) \div 6) + 1
        /\ (i - 2) % 6 = 0 => calls[i].tenths = wait_time * 10
                              \/ calls[i].it < iteration
        /\ (i - 2) % 6 = 0 => calls[i].tenths >= config.min_wait_seconds * 10
        /\ (i - 2) % 6 = 5 => calls[i].tenths = config.post_click_pause

C16_Witness ==
    /\ pc = "returned"
    /\ Len(calls) = 13
    /\ calls[11].op = "move_to" /\ calls[11].it = 2
    /\ calls[12].op = "double_click" /\ calls[12].it = 2
    /\ calls[8].op = "sleep" /\ calls[8].tenths = 20
    /\ calls[13].op = "sleep" /\ calls[13].tenths = 0

\* the counter moves by at most one after the first stop() inside the loop,
\* and not at all when that stop() landed with an iteration in flight
AtMostOneMore ==
    stopAt # <<>> =>
        /\ iteration >= stopAt[2]
        /\ iteration <= stopAt[2] + 1
        /\ stopAt[1] \in InIteration => iteration = stopAt[2]

\* C17: after a stop() invoked while the loop is running at most one further
\* iteration begins (none if an iteration was in flight), and once the loop
\* has read the flag as false and run() has returned, that run issues no
\* further collaborator call.
C17_AtMostOneMoreIteration ==
    /\ []AtMostOneMore
    /\ [][(pc = "returned" /\ pc' # "L148") => calls' = calls]_vars

C17_Witness ==
    /\ stopAt = <<"increment", 1>>
    /\ pc = "returned"
    /\ iteration = 2
    /\ Count("double_click") = 2

\* run() was invoked with max_iterations = n, n >= 1
BoundedRun == max_iterations # None /\ max_iterations[1] >= 1

\* C18: with collaborators that always return and a fairly scheduled thread,
\* run(max_iterations=n), n >= 1, returns, whether or not stop() is invoked
\* meanwhile, and from the reset of the counter on it never counts more
\* than n iterations.
C18_BoundedRunTerminates ==
    /\ []((BoundedRun /\ pc \in InTry \cup {"returned"}) =>
            iteration <= max_iterations[1])
    /\ (BoundedRun /\ pc \in InRun) ~> (pc = "returned")

C18_Witness ==
    /\ pc = "returned"
    /\ max_iterations = <<2>>
    /\ iteration = 2
    /\ stopped
    /\ running

\* lines that end a run's output
TerminationLines == {"Completed", "Script stopped by user", "Error"}

\* the lines of output that follow the three banner lines and are not a
\* termination line
IterationLines ==
    {i \in 4 .. Len(output) : output[i].text \notin TerminationLines}

\* C19: with verbose true, after the banner the output is, iteration by
\* iteration, one "Waiting" line carrying the iteration's number and wait
\* time, one "Moving mouse" line and one "Double clicking..." line, the
\* numbers running 1, 2, ... without gap or repeat; the Waiting line of an
\* iteration is printed before its wait sleep is issued, and an iteration
\* that is over has printed all three lines.
C19_IterationLines ==
    config.verbose =>
        /\ \A i \in 4 .. Len(output) :
             \/ /\ output[i].text \in TerminationLines
                /\ i = Len(output)
                /\ pc \in {"returned", "exited"}
             \/ /\ (i - 4) % 3 = 0
                /\ output[i].text = "Waiting"
                /\ output[i].n = ((i - 4) \div 3) + 1
                /\ output[i].n <= iteration
             \/ /\ (i - 4) % 3 = 1
                /\ output[i].text = "Moving mouse"
             \/ /\ (i - 4) % 3 = 2
                /\ output[i].text = "Double clicking..."
        /\ \A i \in WaitSleeps :
             \E j \in IterationLines :
                 /\ output[j].text = "Waiting"
                 /\ output[j].n = calls[i].it
                 /\ output[j].k * 10 = calls[i].tenths
        /\ pc \in InIteration =>
             \E j \in IterationLines :
                 output[j].text = "Waiting" /\ output[j].n = iteration
        /\ pc \in {"check_max", "while", "increment", "returned"} =>
             Cardinality(IterationLines) = 3 * iteration

C19_Witness ==
    /\ config.verbose
    /\ pc = "returned"
    /\ Len(output) = 10
    /\ output[4].text = "Waiting" /\ output[4].n = 1
    /\ output[7].text = "Waiting" /\ output[7].n = 2
    /\ output[8].text = "Moving mouse"
    /\ output[9].text = "Double clicking..."

\* C20: with verbose true, a run that has ended (run() returned or the
\* process exited) has a termination line as the last line of its output.
C20_TerminationLineLast ==
    (config.verbose /\ pc \in {"returned", "exited"}) =>
        /\ Len(output) > 0
        /\ output[Len(output)].text \in TerminationLines

\* run() was invoked with max_iterations unset
UnboundedRun == max_iterations = None

\* C23: run() returns normally only when the loop read the flag as false,
\* after a stop() invoked since run() was invoked, or when max_iterations was
\* given and the counter has reached it; with max_iterations unset and no
\* stop(), interrupt or error, run() does not return and goes on starting
\* iterations (in the model: up to the cap MaxIteration).
C23_ReturnReasons ==
    /\ [][(pc # "returned" /\ pc' = "returned") =>
            \/ pc = "while" /\ ~running /\ stopped
            \/ /\ pc = "check_max"
               /\ max_iterations # None
               /\ iteration >= max_iterations[1]]_vars
    /\ []((UnboundedRun /\ ~stopped) => pc # "returned")
    /\ (UnboundedRun /\ pc \in InRun) ~>
         (stopped \/ (pc = "while" /\ running /\ iteration = MaxIteration))

C23_Witness ==
    /\ UnboundedRun
    /\ ~stopped
    /\ pc = "while"
    /\ running
    /\ iteration = 2
    /\ Count("double_click") = 2

\* number of calls of op issued since run() was invoked, failed ones included
Issued(op) == Cardinality({i \in DOMAIN calls : calls[i].op = op})

\* the counting relation between commands, counter and sleeps
CountsInStep ==
    /\ Issued("double_click") <= Issued("move_to")
    /\ Issued("move_to") <= Issued("double_click") + 1
    /\ Issued("move_to") <= iteration
    /\ iteration <= Issued("move_to") + 1
    /\ pc = "returned" =>
         /\ Issued("move_to") = iteration
         /\ Issued("double_click") = iteration
         /\ Issued("sleep") = 2 * iteration

\* C24 as stated: the counting relation holds in every state of a run, from
\* the invocation of run() on.
C24_CountsInEveryRunState ==
    pc \in InRun \cup {"returned"} => CountsInStep

\* C24 as amended: the counting relation holds in every state of a run once
\* line 149 has reset the counter.
C24_CountsAfterReset ==
    pc \in {"setup"} \cup InTry \cup {"returned"} => CountsInStep

C24_Witness ==
    /\ pc = "returned"
    /\ runNo = 2
    /\ prevIteration = 2
    /\ iteration = 1
    /\ Issued("move_to") = 1
    /\ Issued("double_click") = 1
    /\ Issued("sleep") = 2

\* C25: a stop() invoked while no run() is in progress does not carry over:
\* in a later run during which stop() is not invoked the flag is true from
\* line 148 on, and run(max_iterations=n), n >= 1, performs its n iterations.
C25_IdleStopForgotten ==
    /\ (stopIdle /\ ~stopped /\ pc \in InRun \ {"L148"}) => running
    /\ (stopIdle /\ ReturnedUnstopped) =>
         /\ iteration = max_iterations[1]
         /\ Count("move_to") = max_iterations[1]
         /\ Count("double_click") = max_iterations[1]

C25_Witness ==
    /\ stopIdle
    /\ runNo = 1
    /\ ReturnedUnstopped
    /\ running
    /\ max_iterations = <<2>>
    /\ Count("double_click") = 2

\* everything of the program but the running flag
frameVars == <<args, config, raised, iteration, max_iterations, wait_time,
               current_pos, target_pos, screen, pc, exit, calls, output>>

\* C26: stop() changes nothing but the running flag (not the counter, not the
\* configuration; no provider call, sleep or output), and no step of the
\* controller changes the configuration.
C26_StopFrame ==
    /\ [][Stop => UNCHANGED frameVars]_vars
    /\ [][config' = config]_vars

C26_Witness ==
    /\ pc = "get_position"
    /\ ~running
    /\ stopAt = <<"get_position", 2>>
    /\ iteration = 2
    /\ Len(calls) = 8

\* the provider commands and sleeps among the observations t, in order
Commands(t) == SelectSeq(t, LAMBDA e : e.act # "print")

Synced == pair[1].pc = pair[2].pc

\* the observations t without the failsafe setting
ButFailsafe(t) == SelectSeq(t, LAMBDA e : e.act # "set_failsafe")

\* the places in t where the failsafe is set
FailsafeAt(t) == {i \in DOMAIN t : t[i].act = "set_failsafe"}

\* C22 as stated: on the same sampled wait times and provider answers, run()
\* with the default configuration and main() produce the same sequence of
\* observable actions (failsafe setting, printed lines, sleeps, moves,
\* double-clicks) and end with the same exit status.
C22_SameObservableActions ==
    Synced =>
        /\ pair[1].trace = pair[2].trace
        /\ pair[1].exit = pair[2].exit

\* C22 as amended: they produce the same sequence of printed lines, sleeps,
\* moves and double-clicks; each switches the failsafe on exactly once before
\* its first iteration, run() before the banner and main() after it; they end
\* with the same exit status, 0 for an interrupt and 1 for an error raised
\* inside the loop.
C22_SameButFailsafeOrder ==
    Synced =>
        /\ ButFailsafe(pair[1].trace) = ButFailsafe(pair[2].trace)
        /\ pair[1].exit = pair[2].exit
        /\ pair[1].thrown.exc = pair[2].thrown.exc
        /\ (pair[1].thrown.at \in InTry /\
              pair[1].thrown.exc = "KeyboardInterrupt") => pair[1].exit = "0"
        /\ pair[1].thrown.exc = "Exception" => pair[1].exit = "1"
        /\ (pair[1].pc \in InTry \/ pair[1].thrown.at \in InTry) =>
             /\ FailsafeAt(pair[1].trace) = {1}
             /\ FailsafeAt(pair[2].trace) = {4}
             /\ pair[1].trace[1].on
             /\ pair[2].trace[4].on

C22_Witness ==
    /\ Synced
    /\ pair[1].exit = "1"
    /\ pair[2].exit = "1"
    /\ pair[1].thrown.at = "double_click"
    /\ pair[1].iteration = 2
    /\ pair[2].iteration = 2
    /\ Len(pair[2].trace) = 17

====
